---- MODULE Spec2Model ----
(***************************************************************************)
(* A model of the searchyaml storage engine: the Store (document map,      *)
(* memory-mapped file, dirty flag, TTL, periodic sync and GC), the         *)
(* IndexManager with its btree / vector / trigram indexes, and the YAML    *)
(* codec seen as a block of cells.                                         *)
(*                                                                         *)
(* Time is counted in ticks of 1/SubSec second; time.Now().Unix() is the   *)
(* whole number of seconds.  A goroutine is a process with a call stack of *)
(* frames; sync.RWMutex is not reentrant, so a process that asks for a     *)
(* lock it already holds stays blocked.                                    *)
(***************************************************************************)
EXTENDS Integers, Sequences, FiniteSets, TLC

\* ------------------------------------------------------------------ bounds
SubSec == 2         \* clock ticks per second (the sub-second phase)
MaxTime == 2 * SubSec   \* the clock runs from 0 to MaxTime ticks (two seconds)
MaxCleanup == 1     \* cleanup goroutines (go s.Delete) alive at once, per key
InitialSize == 2    \* opts.InitialSize, in cells of the mapped region
SmallSize == 1      \* an opts.InitialSize below the encoding of one entry
MaxStat == 3        \* GetStats is not called once a counter of IndexStats would pass it

Keys == {"a", "b"}
Procs == {"bg", "cl", "c2"}    \* the periodicSync goroutine, two request workers
IndexFields == {"tag", "title"}

\* ------------------------------------------------------------------ values
\* A field value: its Go dynamic type and a code for the value.  Strings are
\* coded in their lexicographic order ("RED" = -1, "blue" = 1, "red" = 2,
\* "redo" = 3; 0 is kept for the empty text of a query).  A []float32 is
\* coded by 10 * direction + magnitude: 12 is twice the first unit vector of
\* DefaultDim components, 21 the second unit vector; 0 is the
\* three-component vector [1, 0, 0].
Absent == [t |-> "absent", v |-> 0]
Nil == [t |-> "nil", v |-> 0]
StrRED == [t |-> "string", v |-> -1]
StrBlue == [t |-> "string", v |-> 1]
StrRed == [t |-> "string", v |-> 2]
StrRedo == [t |-> "string", v |-> 3]
Int7 == [t |-> "int", v |-> 7]
Vec3 == [t |-> "[]float32", v |-> 0]
VecE1 == [t |-> "[]float32", v |-> 11]
Vec2E1 == [t |-> "[]float32", v |-> 12]
VecE2 == [t |-> "[]float32", v |-> 21]

\* A document value: a mapping with fields, or a non-mapping scalar.
NoValue == [kind |-> "none", tag |-> Absent, title |-> Absent]
Scalar42 == [kind |-> "scalar", tag |-> Absent, title |-> Absent]
DocRed == [kind |-> "map", tag |-> StrRed, title |-> StrRed]
DocNum == [kind |-> "map", tag |-> Int7, title |-> Absent]
DocBlue == [kind |-> "map", tag |-> StrBlue, title |-> Absent]
DocRedo == [kind |-> "map", tag |-> StrRed, title |-> StrRedo]
DocVec == [kind |-> "map", tag |-> Vec2E1, title |-> StrRed]
DocVecE2 == [kind |-> "map", tag |-> VecE2, title |-> Absent]
DocVec3 == [kind |-> "map", tag |-> Vec3, title |-> Absent]
DocRED == [kind |-> "map", tag |-> Absent, title |-> StrRED]
Values == {Scalar42, DocRed, DocNum, DocBlue, DocRedo, DocVec, DocVecE2, DocVec3, DocRED}

\* m[field], exists
FieldOf(value, field) == IF field = "tag" THEN value.tag ELSE value.title

\* Entry{Value, Timestamp, TTL}; NoEntry stands for "key not in the map"
NoEntry == [Value |-> NoValue, Timestamp |-> 0, TTL |-> 0]
MkEntry(value, ts, ttl) == [Value |-> value, Timestamp |-> ts, TTL |-> ttl]

\* time.Now().Unix()
Unix(t) == t \div SubSec

\* int64(ttl.Seconds()): a duration of d ticks, truncated to whole seconds
TTLSeconds(d) == d \div SubSec

\* an expiry test that is one second late
ExpiredOneSecondLate(entry, unixNow) ==
    entry.TTL > 0 /\ unixNow > entry.Timestamp + entry.TTL + 1

\* the expiry test of Get, load and gcExpiredEntries
Expired(entry, unixNow) == entry.TTL > 0 /\ unixNow > entry.Timestamp + entry.TTL

\* the keep test of sync
SyncKeeps(entry, unixNow) == entry.TTL = 0 \/ unixNow <= entry.Timestamp + entry.TTL

\* ------------------------------------------------------------------- codec
\* The YAML block as cells: a mapping key opens an entry ("a:"), the cell
\* after it holds the entry's fields (value, and timestamp / ttl when they
\* are not zero: omitempty decodes back to zero).  An empty map is "{}".
\* A zero cell is a zero byte of the region.
Zero == [c |-> "zero", k |-> "", e |-> NoEntry]
EmptyDoc == [c |-> "empty", k |-> "", e |-> NoEntry]
KeyCell(key) == [c |-> "key", k |-> key, e |-> NoEntry]
ValCell(entry) == [c |-> "val", k |-> "", e |-> entry]

\* yaml.v3 writes the keys of a map in sorted order
KeyOrder == <<"a", "b">>

EmptyMap == [k \in Keys |-> NoEntry]
Present(m) == {k \in Keys : m[k] # NoEntry}

RECURSIVE EncodeFrom(_, _)
EncodeFrom(m, i) ==
    IF i > Len(KeyOrder) THEN <<>>
    ELSE LET k == KeyOrder[i]
         IN (IF m[k] = NoEntry THEN <<>> ELSE <<KeyCell(k), ValCell(m[k])>>)
            \o EncodeFrom(m, i + 1)

\* FastYAMLEncoder.Encode
Encode(m) == IF Present(m) = {} THEN <<EmptyDoc>> ELSE EncodeFrom(m, 1)

\* FastYAMLEncoder.Decode: [ok, data]; a block that is not the encoder's
\* output of some map (a cut entry, a key twice) is a decode error
RECURSIVE DecodeFrom(_, _, _)
DecodeFrom(cells, i, m) ==
    IF i > Len(cells) THEN [ok |-> TRUE, data |-> m]
    ELSE IF i + 1 > Len(cells) \/ cells[i].c # "key" \/ cells[i + 1].c # "val"
         THEN [ok |-> FALSE, data |-> EmptyMap]
    ELSE IF m[cells[i].k] # NoEntry
         THEN [ok |-> FALSE, data |-> EmptyMap]
    ELSE DecodeFrom(cells, i + 2, [m EXCEPT ![cells[i].k] = cells[i + 1].e])

Decode(cells) ==
    IF cells = <<EmptyDoc>> THEN [ok |-> TRUE, data |-> EmptyMap]
    ELSE DecodeFrom(cells, 1, EmptyMap)

Zeros(n) == [i \in 1..n |-> Zero]

\* Store.findContentSize: offset of the first zero byte, or the length
RECURSIVE FirstZero(_, _)
FirstZero(region, i) ==
    IF i > Len(region) THEN Len(region)
    ELSE IF region[i] = Zero THEN i - 1
    ELSE FirstZero(region, i + 1)

findContentSize(region) == FirstZero(region, 1)

\* ------------------------------------------------------------- btree index
\* indexItem.Less: "true", "false", or "panic" (a failed type assertion)
Less(i, than) ==
    IF i.value.t \in {"string", "int", "float64"}
    THEN IF than.value.t = i.value.t
         THEN (IF i.value.v < than.value.v THEN "true" ELSE "false")
         ELSE "panic"
    ELSE "false"

Item(key, value) == [key |-> key, value |-> value]

\* sort.Search(n, func(i) { return item.Less(s[i]) }): the binary search,
\* probing only the elements it visits; -1 when a probe panics
RECURSIVE SortSearch(_, _, _, _)
SortSearch(s, item, i, j) ==
    IF i >= j THEN i
    ELSE LET h == (i + j) \div 2
             r == Less(item, s[h + 1])
         IN IF r = "panic" THEN -1
            ELSE IF r = "false" THEN SortSearch(s, item, h + 1, j)
            ELSE SortSearch(s, item, i, h)

\* items.find: [panic, found, i] with i a 0-based index
find(s, item) ==
    LET i == SortSearch(s, item, 0, Len(s))
    IN IF i = -1 THEN [panic |-> TRUE, found |-> FALSE, i |-> 0]
       ELSE IF i > 0
            THEN LET r == Less(s[i], item)
                 IN IF r = "panic" THEN [panic |-> TRUE, found |-> FALSE, i |-> 0]
                    ELSE IF r = "false" THEN [panic |-> FALSE, found |-> TRUE, i |-> i - 1]
                    ELSE [panic |-> FALSE, found |-> FALSE, i |-> i]
       ELSE [panic |-> FALSE, found |-> FALSE, i |-> 0]

InsertAt(s, i, x) == SubSeq(s, 1, i) \o <<x>> \o SubSeq(s, i + 1, Len(s))
RemoveAt(s, i) == SubSeq(s, 1, i) \o SubSeq(s, i + 2, Len(s))

\* BTree.ReplaceOrInsert on a tree of one leaf: [panic, items]
ReplaceOrInsert(items, item) ==
    IF items = <<>> THEN [panic |-> FALSE, items |-> <<item>>]
    ELSE LET f == find(items, item)
         IN IF f.panic THEN [panic |-> TRUE, items |-> items]
            ELSE IF f.found
                 THEN [panic |-> FALSE, items |-> [items EXCEPT ![f.i + 1] = item]]
            ELSE [panic |-> FALSE, items |-> InsertAt(items, f.i, item)]

\* BTree.Delete on a tree of one leaf: [panic, items]
TreeDelete(items, item) ==
    IF items = <<>> THEN [panic |-> FALSE, items |-> items]
    ELSE LET f == find(items, item)
         IN IF f.panic THEN [panic |-> TRUE, items |-> items]
            ELSE IF f.found THEN [panic |-> FALSE, items |-> RemoveAt(items, f.i)]
            ELSE [panic |-> FALSE, items |-> items]

\* ----------------------------------------------------------- trigram index
\* the text of a string value, as characters
TextOf(code) ==
    IF code = 1 THEN <<"b", "l", "u", "e">>
    ELSE IF code = 2 THEN <<"r", "e", "d">>
    ELSE IF code = 3 THEN <<"r", "e", "d", "o">>
    ELSE <<"R", "E", "D">>

\* strings.ToLower, per character
Lower(ch) == IF ch = "R" THEN "r" ELSE IF ch = "E" THEN "e" ELSE IF ch = "D" THEN "d" ELSE ch
ToLower(text) == [i \in 1..Len(text) |-> Lower(text[i])]

\* a generateTrigrams that keeps the case of the text
generateTrigramsCased(text) ==
    IF Len(text) < 3 THEN <<text>>
    ELSE [i \in 1..(Len(text) - 2) |-> SubSeq(text, i, i + 2)]

\* generateTrigrams: the list of grams of a text
generateTrigrams(text) ==
    LET low == ToLower(text)
    IN IF Len(low) < 3 THEN <<low>>
       ELSE [i \in 1..(Len(low) - 2) |-> SubSeq(low, i, i + 2)]

GramSet(text) == {generateTrigrams(text)[i] : i \in 1..Len(generateTrigrams(text))}

\* TrigramIndex{trigrams, docs}: docs[key] is Absent when key has no text;
\* trigrams is the set of (gram, key) postings and grams the set of grams
\* that have a posting set in the map, empty or not
NewTrigramIndex ==
    [exists |-> TRUE, docs |-> [k \in Keys |-> Absent], trigrams |-> {}, grams |-> {}]
NoTrigramIndex ==
    [exists |-> FALSE, docs |-> [k \in Keys |-> Absent], trigrams |-> {}, grams |-> {}]

\* a removeDocumentTrigrams that keeps a posting set it has emptied
removeDocumentTrigramsKeepEmpty(ti, key, text) ==
    [ti EXCEPT !.trigrams = @ \ {<<g, key>> : g \in GramSet(text)}]

\* TrigramIndex.removeDocumentTrigrams: the key leaves the posting set of
\* each gram of the text, and a posting set left empty leaves the map
removeDocumentTrigrams(ti, key, text) ==
    [ti EXCEPT !.trigrams = @ \ {<<g, key>> : g \in GramSet(text)},
               !.grams = {g \in @ : g \notin GramSet(text)
                                    \/ \E k \in Keys \ {key} : <<g, k>> \in ti.trigrams}]

\* TrigramIndex.Update
TrigramUpdate(ti, key, tv) ==
    LET old == ti.docs[key]
        cleared == IF old # Absent
                   THEN removeDocumentTrigrams(ti, key, TextOf(old.v))
                   ELSE ti
    IN [cleared EXCEPT !.docs[key] = tv,
                       !.trigrams = @ \cup {<<g, key>> : g \in GramSet(TextOf(tv.v))},
                       !.grams = @ \cup GramSet(TextOf(tv.v))]

\* TrigramIndex.Remove
TrigramRemove(ti, key) ==
    IF ti.docs[key] # Absent
    THEN [removeDocumentTrigrams(ti, key, TextOf(ti.docs[key].v)) EXCEPT !.docs[key] = Absent]
    ELSE ti

\* ------------------------------------------------------------ vector index
DefaultDim == 384

\* len(vector) of a []float32 value; its components are coded by v
VecLen(tv) == IF tv.v = 0 THEN 3 ELSE DefaultDim

\* normalizeVector: every component divided by the magnitude when it is
\* above 0 (the direction is kept, the magnitude becomes 1)
normalizeVector(tv) ==
    IF tv.v % 10 > 0 THEN [tv EXCEPT !.v = (tv.v \div 10) * 10 + 1] ELSE tv

NewVectorIndex(dimensions) ==
    [exists |-> TRUE, dim |-> dimensions, vectors |-> [k \in Keys |-> Absent]]
NoVectorIndex == [exists |-> FALSE, dim |-> 0, vectors |-> [k \in Keys |-> Absent]]

\* VectorIndex.Update: [err, vi]
VectorUpdate(vi, key, tv) ==
    IF VecLen(tv) # vi.dim THEN [err |-> TRUE, vi |-> vi]
    ELSE [err |-> FALSE, vi |-> [vi EXCEPT !.vectors[key] = normalizeVector(tv)]]

\* VectorIndex.Remove
VectorRemove(vi, key) == [vi EXCEPT !.vectors[key] = Absent]

\* ------------------------------------------------------------ index manager
NewTree == [exists |-> TRUE, items |-> <<>>]
NoTree == [exists |-> FALSE, items |-> <<>>]

\* NewIndexManager
NewIndexManager ==
    [trees |-> [f \in IndexFields |-> NoTree],
     vectors |-> [f \in IndexFields |-> NoVectorIndex],
     text |-> [f \in IndexFields |-> NoTrigramIndex]]

IndexTypes == {"btree", "vector", "text"}

\* Go ranges over a map in an unspecified order
FieldOrders == {<<"tag", "title">>, <<"title", "tag">>}

\* an AddIndex that takes any other type string for an ordered index
AddIndexAnyType(m, field, indexType) ==
    IF indexType = "vector"
    THEN [err |-> FALSE,
          im |-> IF m.vectors[field].exists THEN m
                 ELSE [m EXCEPT !.vectors[field] = NewVectorIndex(DefaultDim)]]
    ELSE IF indexType = "text"
    THEN [err |-> FALSE,
          im |-> IF m.text[field].exists THEN m ELSE [m EXCEPT !.text[field] = NewTrigramIndex]]
    ELSE [err |-> FALSE,
          im |-> IF m.trees[field].exists THEN m ELSE [m EXCEPT !.trees[field] = NewTree]]

\* IndexManager.AddIndex: [err, im]
AddIndex(m, field, indexType) ==
    IF indexType = "btree"
    THEN [err |-> FALSE,
          im |-> IF m.trees[field].exists THEN m ELSE [m EXCEPT !.trees[field] = NewTree]]
    ELSE IF indexType = "vector"
    THEN [err |-> FALSE,
          im |-> IF m.vectors[field].exists THEN m
                 ELSE [m EXCEPT !.vectors[field] = NewVectorIndex(DefaultDim)]]
    ELSE IF indexType = "text"
    THEN [err |-> FALSE,
          im |-> IF m.text[field].exists THEN m ELSE [m EXCEPT !.text[field] = NewTrigramIndex]]
    ELSE [err |-> TRUE, im |-> m]

\* a RemoveIndex that removes whatever index the field has, of any type
RemoveIndexAnyType(m, field, indexType) ==
    IF m.trees[field].exists \/ m.vectors[field].exists \/ m.text[field].exists
    THEN [err |-> FALSE,
          im |-> [m EXCEPT !.trees[field] = NoTree, !.vectors[field] = NoVectorIndex,
                           !.text[field] = NoTrigramIndex]]
    ELSE [err |-> TRUE, im |-> m]

\* IndexManager.RemoveIndex: [err, im]
RemoveIndex(m, field, indexType) ==
    IF indexType = "btree" /\ m.trees[field].exists
    THEN [err |-> FALSE, im |-> [m EXCEPT !.trees[field] = NoTree]]
    ELSE IF indexType = "vector" /\ m.vectors[field].exists
    THEN [err |-> FALSE, im |-> [m EXCEPT !.vectors[field] = NoVectorIndex]]
    ELSE IF indexType = "text" /\ m.text[field].exists
    THEN [err |-> FALSE, im |-> [m EXCEPT !.text[field] = NoTrigramIndex]]
    ELSE [err |-> TRUE, im |-> m]

\* the loop over im.trees of Update, in the order ord: [panic, trees]
RECURSIVE UpdateTrees(_, _, _, _, _)
UpdateTrees(trees, key, value, ord, i) ==
    IF i > Len(ord) THEN [panic |-> FALSE, trees |-> trees]
    ELSE LET f == ord[i]
         IN IF trees[f].exists /\ FieldOf(value, f) # Absent
            THEN LET r == ReplaceOrInsert(trees[f].items, Item(key, FieldOf(value, f)))
                 IN IF r.panic THEN [panic |-> TRUE, trees |-> trees]
                    ELSE UpdateTrees([trees EXCEPT ![f].items = r.items], key, value, ord, i + 1)
            ELSE UpdateTrees(trees, key, value, ord, i + 1)

\* the loop over im.vectors of Update: the error of vec.Update is dropped
UpdateVectors(vectors, key, value) ==
    [f \in IndexFields |->
        IF vectors[f].exists /\ FieldOf(value, f).t = "[]float32"
        THEN VectorUpdate(vectors[f], key, FieldOf(value, f)).vi
        ELSE vectors[f]]

\* the loop over im.text of Update
UpdateText(text, key, value) ==
    [f \in IndexFields |->
        IF text[f].exists /\ FieldOf(value, f).t = "string"
        THEN TrigramUpdate(text[f], key, FieldOf(value, f))
        ELSE text[f]]

\* IndexManager.Update: [panic, im]; a panic in a tree leaves the trees
\* before it in ord updated and the vector and text indexes untouched
Update(m, key, value, ord) ==
    IF value.kind = "map"
    THEN LET t == UpdateTrees(m.trees, key, value, ord, 1)
         IN IF t.panic THEN [panic |-> TRUE, im |-> [m EXCEPT !.trees = t.trees]]
            ELSE [panic |-> FALSE,
                  im |-> [trees |-> t.trees,
                          vectors |-> UpdateVectors(m.vectors, key, value),
                          text |-> UpdateText(m.text, key, value)]]
    ELSE [panic |-> FALSE, im |-> m]

\* the loop over im.trees of Remove: tree.Delete(indexItem{key, nil})
RECURSIVE RemoveTrees(_, _, _, _)
RemoveTrees(trees, key, ord, i) ==
    IF i > Len(ord) THEN [panic |-> FALSE, trees |-> trees]
    ELSE LET f == ord[i]
         IN IF trees[f].exists
            THEN LET r == TreeDelete(trees[f].items, Item(key, Nil))
                 IN IF r.panic THEN [panic |-> TRUE, trees |-> trees]
                    ELSE RemoveTrees([trees EXCEPT ![f].items = r.items], key, ord, i + 1)
            ELSE RemoveTrees(trees, key, ord, i + 1)

\* IndexManager.Remove: [panic, im]
Remove(m, key, ord) ==
    LET t == RemoveTrees(m.trees, key, ord, 1)
    IN IF t.panic THEN [panic |-> TRUE, im |-> [m EXCEPT !.trees = t.trees]]
       ELSE [panic |-> FALSE,
             im |-> [trees |-> t.trees,
                     vectors |-> [f \in IndexFields |-> VectorRemove(m.vectors[f], key)],
                     text |-> [f \in IndexFields |-> TrigramRemove(m.text[f], key)]]]

\* the keys an index holds
TreeKeys(tree) == {tree.items[i].key : i \in 1..Len(tree.items)}
VectorKeys(vi) == {k \in Keys : vi.vectors[k] # Absent}
TextKeys(ti) == {k \in Keys : ti.docs[k] # Absent} \cup {p[2] : p \in ti.trigrams}
IndexedKeys(m) ==
    UNION {TreeKeys(m.trees[f]) \cup VectorKeys(m.vectors[f]) \cup TextKeys(m.text[f])
           : f \in IndexFields}

\* ------------------------------------------------------------------- search
\* A score is a float in [0, 1], held as a number of quarters (4 is 1.0):
\* the texts and vectors of the model give no other fraction.
\* TrigramIndex.Search with maxResults = 0: the (key, score) of every key
\* that shares a gram with the query; score = matches / len(queryTrigrams)
TrigramSearch(ti, text) ==
    LET grams == generateTrigrams(text)
        matches(k) == Cardinality({i \in 1..Len(grams) : <<grams[i], k>> \in ti.trigrams})
    IN {[key |-> k, s |-> (4 * matches(k)) \div Len(grams)] : k \in {d \in Keys : matches(d) > 0}}

\* results[:k] after a sort.Slice by descending score: sort.Slice is not
\* stable and the results come from a map, so ties fall either way
TopK(rs, k) ==
    IF k >= Cardinality(rs) THEN {rs}
    ELSE {S \in SUBSET rs : /\ Cardinality(S) = k
                            /\ \A x \in S, y \in rs \ S : x.s >= y.s}

\* TrigramIndex.FuzzySearch: the sets of hits it can return
FuzzySearch(ti, text, minScore, maxResults) ==
    LET filtered == {r \in TrigramSearch(ti, text) : r.s >= minScore}
    IN IF maxResults > 0 THEN TopK(filtered, maxResults) ELSE {filtered}

\* cosineSimilarity of two normalized vectors: the dot product
cosineSimilarity(a, b) == IF a.v % 10 = 1 /\ a.v = b.v THEN 4 ELSE 0

\* VectorIndex.Search: [err, panic, hits], hits the sets it can return
VectorSearch(vi, query, k) ==
    IF VecLen(query) # vi.dim THEN [err |-> TRUE, panic |-> FALSE, hits |-> {{}}]
    ELSE LET results == {[key |-> d, s |-> cosineSimilarity(normalizeVector(query), vi.vectors[d])]
                            : d \in VectorKeys(vi)}
         IN IF k < 0 THEN [err |-> FALSE, panic |-> TRUE, hits |-> {{}}]
            ELSE [err |-> FALSE, panic |-> FALSE, hits |-> TopK(results, k)]

\* tree.AscendGreaterOrEqual(indexItem{"", value}, ...) collecting the keys
\* of the items whose value equals value: [panic, keys]
FilterField(tree, value) ==
    IF tree.items = <<>> THEN [panic |-> FALSE, keys |-> {}]
    ELSE LET f == find(tree.items, Item("", value))
         IN IF f.panic THEN [panic |-> TRUE, keys |-> {}]
            ELSE [panic |-> FALSE,
                  keys |-> {tree.items[i].key :
                              i \in {j \in (f.i + 1)..Len(tree.items) : tree.items[j].value = value}}]

\* IndexManager.Search: the intersection over the filter fields that have an
\* ordered index; filters[f] is Absent for a field the query does not name
IndexSearch(m, filters) ==
    LET used == {f \in IndexFields : filters[f] # Absent /\ m.trees[f].exists}
    IN IF \E f \in used : FilterField(m.trees[f], filters[f]).panic
       THEN [panic |-> TRUE, keys |-> {}]
       ELSE [panic |-> FALSE,
             keys |-> {k \in Keys : used # {} /\ \A f \in used :
                                        k \in FilterField(m.trees[f], filters[f]).keys}]

\* SearchQuery: text 0 is the empty text, vector Absent no vector
NoQuery ==
    [text |-> 0, vector |-> Absent, filters |-> [f \in IndexFields |-> Absent],
     maxResults |-> 0, minScore |-> 0]

\* the queries: a text, a vector, a filter on tag, and their combinations
\* with a limit of 0 (unset), 1 and -1 results
TextRed == [NoQuery EXCEPT !.text = 2]
TextRedo == [NoQuery EXCEPT !.text = 3]
FilterRed == [NoQuery EXCEPT !.filters["tag"] = StrRed]
FilterBlue == [NoQuery EXCEPT !.filters["tag"] = StrBlue]
Queries ==
    {[q EXCEPT !.vector = v, !.maxResults = n] :
        q \in {NoQuery, TextRed, TextRedo, FilterRed, FilterBlue,
               [TextRed EXCEPT !.filters["tag"] = StrBlue]},
        v \in {Absent, VecE1, Vec3}, n \in {0, 1, -1}}

\* the scores map of combineResults; hit: the key is in the map
NoScore == [hit |-> FALSE, text |-> 0, vec |-> 0, combined |-> 0]

\* "scores[r.Key] = result" for the text hits of one index
SeedText(sc, hits) ==
    [k \in Keys |->
        IF \E h \in hits : h.key = k
        THEN [hit |-> TRUE, text |-> (CHOOSE h \in hits : h.key = k).s, vec |-> 0, combined |-> 0]
        ELSE sc[k]]

\* calculateCombinedScore
calculateCombinedScore(textScore, vectorScore) == (textScore + vectorScore) \div 2

\* the loop of combineResults over the vector hits of one index
AddVector(sc, hits) ==
    [k \in Keys |->
        IF \E h \in hits : h.key = k
        THEN LET s == (CHOOSE h \in hits : h.key = k).s
             IN IF sc[k].hit
                THEN [sc[k] EXCEPT !.vec = s, !.combined = calculateCombinedScore(sc[k].text, s)]
                ELSE [hit |-> TRUE, text |-> 0, vec |-> s, combined |-> s]
        ELSE sc[k]]

\* a combineResults that returns a result for every key of the scores map
combineResultsAll(sc, filterKeys, m) ==
    {[key |-> k, text |-> sc[k].text, vec |-> sc[k].vec, s |-> sc[k].combined,
      value |-> m[k].Value] :
        k \in {d \in Keys : /\ sc[d].hit
                            /\ filterKeys # {} => d \in filterKeys}}

\* combineResults after its two loops: the filter (skipped when the filter
\* result is empty), then the lookup of the values in the document map
combineResults(sc, filterKeys, m) ==
    {[key |-> k, text |-> sc[k].text, vec |-> sc[k].vec, s |-> sc[k].combined,
      value |-> m[k].Value] :
        k \in {d \in Keys : /\ sc[d].hit
                            /\ filterKeys # {} => d \in filterKeys
                            /\ m[d] # NoEntry}}

\* a sortSearchResults that leaves the results in the order of the map
sortSearchResultsNot(rs) ==
    {sq \in [1..Cardinality(rs) -> rs] : \A i, j \in 1..Cardinality(rs) : i # j => sq[i] # sq[j]}

\* sortSearchResults on the results ranged out of the scores map: the lists
\* it can leave, by descending combined score (sort.Slice keeps no order
\* among equal scores)
sortSearchResults(rs) ==
    {sq \in [1..Cardinality(rs) -> rs] :
        /\ \A i, j \in 1..Cardinality(rs) : i # j => sq[i] # sq[j]
        /\ \A i, j \in 1..Cardinality(rs) : i < j => sq[i].s >= sq[j].s}

\* combined[:query.MaxResults] when MaxResults > 0 and the list is longer
Cut(sq, maxResults) ==
    IF maxResults > 0 /\ Len(sq) > maxResults THEN SubSeq(sq, 1, maxResults) ELSE sq

\* Store.Search: the outcomes [outcome, res, list] it can have in the state
\* (m, idx) when it ranges over the index maps in the order ord; list is
\* the slice returned, res the set of its elements
SearchOutcomes(q, m, idx, ord) ==
    LET textHits(f) == IF q.text # 0 /\ idx.text[f].exists
                       THEN FuzzySearch(idx.text[f], TextOf(q.text), q.minScore, q.maxResults)
                       ELSE {{}}
        useVec(f) == q.vector # Absent /\ idx.vectors[f].exists
        vecRes(f) == VectorSearch(idx.vectors[f], q.vector, q.maxResults)
        vecHits(f) == IF useVec(f) THEN vecRes(f).hits ELSE {{}}
        \* the first vector index in ord that fails decides: error or panic
        first == IF useVec(ord[1]) /\ (vecRes(ord[1]).err \/ vecRes(ord[1]).panic) THEN ord[1]
                 ELSE ord[2]
        flt == IF \E f \in IndexFields : q.filters[f] # Absent
               THEN IndexSearch(idx, q.filters) ELSE [panic |-> FALSE, keys |-> {}]
    IN IF useVec(first) /\ vecRes(first).err
       THEN {[outcome |-> "error", res |-> {}, list |-> <<>>]}
       ELSE IF useVec(first) /\ vecRes(first).panic
       THEN {[outcome |-> "panic", res |-> {}, list |-> <<>>]}
       ELSE IF flt.panic THEN {[outcome |-> "panic", res |-> {}, list |-> <<>>]}
       ELSE UNION {
              LET sc == AddVector(AddVector(SeedText(SeedText([k \in Keys |-> NoScore], t1), t2),
                                            v1), v2)
                  combined == combineResults(sc, flt.keys, m)
              IN {[outcome |-> "ok", res |-> {c[i] : i \in 1..Len(c)}, list |-> c] :
                    c \in {Cut(sq, q.maxResults) : sq \in sortSearchResults(combined)}}
              : t1 \in textHits(ord[1]), t2 \in textHits(ord[2]),
                v1 \in vecHits(ord[1]), v2 \in vecHits(ord[2])}

\* the (field, type) pairs that are keys of the IndexManager's three maps
IndexMapKeys(m) ==
    {<<f, "btree">> : f \in {g \in IndexFields : m.trees[g].exists}}
    \cup {<<f, "vector">> : f \in {g \in IndexFields : m.vectors[g].exists}}
    \cup {<<f, "text">> : f \in {g \in IndexFields : m.text[g].exists}}

\* -------------------------------------------------------------------- store
VARIABLES
    data,      \* Store.data: key -> entry (NoEntry: not in the map)
    dirty,     \* Store.dirty
    file,      \* the backing file, as cells; Store.mm maps all of it
    status,    \* "open": mm is mapped; "closed": Close unmapped it (mm = nil);
               \* "crashed": an unrecovered panic ended the process
    im,        \* Store.indexes
    lock,      \* the Store's RWMutex: the process holding it for write, or "free"
    readers,   \* the processes holding the Store's RWMutex for read
    stack,     \* per process, its call stack of frames (top is last)
    now,       \* the clock, in ticks
    cleanup,   \* per key, the goroutines started by "go s.Delete(key)" not yet run
    last,      \* the call that returned in the last step, with its result
    hist,      \* per key, the last write a client completed, and in ix the
               \* indexes that have existed ever since that write (history)
    quiet,     \* "called"/"returned": a Sync() was called / has returned;
               \* "closing"/"closed": a Close was then called / has returned;
               \* "no" again at any write made since that Sync was called (history)
    stats      \* Store.stats as GetStats last left it: EntryCount and the three
               \* EntryCount fields of IndexStats

vars == <<data, dirty, file, status, im, lock, readers, stack, now, cleanup, last, hist, quiet,
          stats>>

Durations == {1, SubSec}       \* the ttl arguments of SetWithTTL, in ticks: a tick, a second
IndexInputs == {<<"tag", "btree">>, <<"title", "text">>, <<"tag", "vector">>, <<"tag", "hash">>}
IndexValues == {Scalar42, DocRed, DocNum}    \* the documents written in SpecIndex
OrderedValues == {DocRed, DocBlue, DocVec}   \* the documents written in SpecOrdered
OrderedInputs == {<<"tag", "btree">>, <<"title", "text">>}

\* enc: for a Sync() that returned, the bytes its sync encoded (<<>>: it was a no-op)
\* arg: for CreateIndex and RemoveIndex, the index type passed (key is the field)
\* query, res, list: for Search, the query, the results returned and the
\* slice that holds them
\* deletes, expired: for Delete and gcExpiredEntries, what the call added
\* to stats.Deletes and to stats.ExpiredCount
NoLast ==
    [op |-> "none", key |-> "", found |-> FALSE, entry |-> NoEntry, outcome |-> "ok",
     enc |-> <<>>, arg |-> "", query |-> NoQuery, res |-> {}, list |-> <<>>,
     deletes |-> 0, expired |-> 0]
Result(op, key, found, entry, outcome) ==
    [op |-> op, key |-> key, found |-> found, entry |-> entry, outcome |-> outcome,
     enc |-> <<>>, arg |-> "", query |-> NoQuery, res |-> {}, list |-> <<>>,
     deletes |-> 0, expired |-> 0]

\* the zero StoreStats of a new Store
NoStats == [entryCount |-> 0, text |-> 0, vectors |-> 0, trees |-> 0]
NoHist == [op |-> "none", value |-> NoValue, at |-> 0, d |-> 0, ix |-> {}]

\* the locals of a BatchSearch call: the index's field, k, one worker per
\* query (its query, "run" / "done" / "err", the result it stored in
\* results[idx], and the vectors the index held when it searched) and the
\* workers that sent an error, in the order of errCh
NoBatch == [field |-> "", k |-> 0, workers |-> <<>>, errCh |-> <<>>]
Frame(fn, pc) ==
    [fn |-> fn, pc |-> pc, enc |-> <<>>, newSize |-> 0, query |-> NoQuery, batch |-> NoBatch]
Top(p) == stack[p][Len(stack[p])]
Idle(p) == stack[p] = <<>>
At(p, fn, pc) == ~Idle(p) /\ Top(p).fn = fn /\ Top(p).pc = pc
Pop(st) == SubSeq(st, 1, Len(st) - 1)
SetTop(st, fr) == [st EXCEPT ![Len(st)] = fr]

\* Store.mm: nil (length 0) once unmapped
MM == IF status = "open" THEN file ELSE <<>>

LockFree == lock = "free" /\ readers = {}
Alive == status # "crashed"

\* the stack after the sync() on top of st has returned to its caller
Ret(st) ==
    LET below == Pop(st)
        caller == below[Len(below)]
    IN IF caller.fn = "Sync" THEN Pop(below)
       ELSE IF caller.fn = "periodicSync" THEN SetTop(below, [caller EXCEPT !.pc = "gc"])
       ELSE IF caller.fn = "Close" THEN SetTop(below, [caller EXCEPT !.pc = "unmap"])
       ELSE SetTop(below, [caller EXCEPT !.pc = "remap"])

\* the result a returning sync() hands to its caller: op is "Sync" when the
\* caller is Sync(), "sync" when it is periodicSync, Close or resize
RetLast(st, outcome) ==
    IF st[Len(st) - 1].fn = "Sync"
    THEN [Result("Sync", "", FALSE, NoEntry, outcome) EXCEPT !.enc = st[Len(st)].enc]
    ELSE Result("sync", "", FALSE, NoEntry, outcome)

RetQuiet(st, outcome) ==
    IF st[Len(st) - 1].fn = "Sync" /\ quiet = "called" /\ outcome = "ok" THEN "returned" ELSE quiet

\* NewStore on a fresh file: truncated to InitialSize, nothing to load
Init ==
    /\ data = EmptyMap
    /\ dirty = FALSE
    /\ file = Zeros(InitialSize)
    /\ status = "open"
    /\ im = NewIndexManager
    /\ lock = "free"
    /\ readers = {}
    /\ stack = [p \in Procs |-> <<>>]
    /\ now = 0
    /\ cleanup = [k \in Keys |-> 0]
    /\ last = NoLast
    /\ hist = [k \in Keys |-> NoHist]
    /\ quiet = "no"
    /\ stats = NoStats

\* NewStore on a fresh file with InitialSize = SmallSize
InitSmall ==
    /\ data = EmptyMap
    /\ dirty = FALSE
    /\ file = Zeros(SmallSize)
    /\ status = "open"
    /\ im = NewIndexManager
    /\ lock = "free"
    /\ readers = {}
    /\ stack = [p \in Procs |-> <<>>]
    /\ now = 0
    /\ cleanup = [k \in Keys |-> 0]
    /\ last = NoLast
    /\ hist = [k \in Keys |-> NoHist]
    /\ quiet = "no"
    /\ stats = NoStats

\* the clock advances
Tick ==
    /\ now < MaxTime
    /\ now' = now + 1
    /\ last' = NoLast
    /\ UNCHANGED <<data, dirty, file, status, im, lock, readers, stack, cleanup, hist, quiet, stats>>

\* an unrecovered panic in a goroutine ends the process; the file stays
Crash ==
    /\ status' = "crashed"
    /\ data' = EmptyMap
    /\ dirty' = FALSE
    /\ im' = NewIndexManager
    /\ lock' = "free"
    /\ readers' = {}
    /\ stack' = [p \in Procs |-> <<>>]
    /\ cleanup' = [k \in Keys |-> 0]
    /\ hist' = [k \in Keys |-> NoHist]
    /\ quiet' = "no"
    /\ stats' = NoStats
    /\ UNCHANGED <<file, now>>

\* Store.Get
Get(key) ==
    /\ Alive
    /\ lock = "free"
    /\ LET entry == data[key]
           expired == entry # NoEntry /\ Expired(entry, Unix(now))
       IN /\ expired => cleanup[key] < MaxCleanup
          /\ cleanup' = IF expired THEN [cleanup EXCEPT ![key] = @ + 1] ELSE cleanup
          /\ last' = IF expired THEN Result("Get", key, FALSE, NoEntry, "ok")
                     ELSE Result("Get", key, entry # NoEntry, entry, "ok")
    /\ UNCHANGED <<data, dirty, file, status, im, lock, readers, stack, now, hist, quiet, stats>>

\* the body of Set and SetWithTTL under the write lock
Put(key, value, ttl, ord, op, d) ==
    /\ Alive
    /\ LockFree
    /\ LET r == Update(im, key, value, ord)
       IN /\ data' = [data EXCEPT ![key] = MkEntry(value, Unix(now), ttl)]
          /\ dirty' = TRUE
          /\ im' = r.im
          /\ last' = Result(op, key, FALSE, NoEntry, IF r.panic THEN "panic" ELSE "ok")
          /\ hist' = [hist EXCEPT ![key] =
                        IF r.panic THEN [NoHist EXCEPT !.ix = IndexMapKeys(im)]
                        ELSE [op |-> op, value |-> value,
                              at |-> IF op = "Set" THEN 0 ELSE now, d |-> d,
                              ix |-> IndexMapKeys(im)]]
    /\ quiet' = "no"
    /\ UNCHANGED <<file, status, lock, readers, stack, now, cleanup, stats>>

\* Store.Set
Set(key, value, ord) == Put(key, value, 0, ord, "Set", 0)

\* Store.SetWithTTL with a ttl of d ticks
SetWithTTL(key, value, d, ord) == Put(key, value, TTLSeconds(d), ord, "SetWithTTL", d)

\* a Delete body without the test for the key's presence
DeleteBodyAlways(key, ord) ==
    LET r == Remove(im, key, ord)
    IN [panic |-> r.panic, data |-> [data EXCEPT ![key] = NoEntry],
        dirty |-> TRUE, im |-> r.im]

\* the body of Store.Delete under the write lock: [panic, data, dirty, im]
DeleteBody(key, ord) ==
    IF data[key] # NoEntry
    THEN LET r == Remove(im, key, ord)
         IN [panic |-> r.panic, data |-> [data EXCEPT ![key] = NoEntry],
             dirty |-> TRUE, im |-> r.im]
    ELSE [panic |-> FALSE, data |-> data, dirty |-> dirty, im |-> im]

\* Store.Delete called by a client (a panic is recovered by the caller);
\* stats.Deletes++ is reached when the key existed and indexes.Remove
\* returned
Delete(key, ord) ==
    /\ Alive
    /\ LockFree
    /\ LET r == DeleteBody(key, ord)
       IN /\ data' = r.data
          /\ dirty' = r.dirty
          /\ im' = r.im
          /\ last' = [Result("Delete", key, data[key] # NoEntry, data[key],
                             IF r.panic THEN "panic" ELSE "ok")
                        EXCEPT !.deletes = IF data[key] # NoEntry /\ ~r.panic THEN 1 ELSE 0]
    /\ hist' = [hist EXCEPT ![key] = NoHist]
    /\ quiet' = "no"
    /\ UNCHANGED <<file, status, lock, readers, stack, now, cleanup, stats>>

\* the goroutine "go s.Delete(key)" that Get started runs
AsyncDelete(key, ord) ==
    /\ Alive
    /\ cleanup[key] > 0
    /\ LockFree
    /\ last' = NoLast
    /\ LET r == DeleteBody(key, ord)
       IN IF r.panic
          THEN Crash
          ELSE /\ data' = r.data
               /\ dirty' = r.dirty
               /\ im' = r.im
               /\ cleanup' = [cleanup EXCEPT ![key] = @ - 1]
               /\ quiet' = IF data[key] # NoEntry THEN "no" ELSE quiet
               /\ UNCHANGED <<file, status, lock, readers, stack, now, hist, stats>>

\* Store.CreateIndex
CreateIndex(field, indexType) ==
    /\ Alive
    /\ im' = AddIndex(im, field, indexType).im
    /\ last' = [Result("CreateIndex", field, FALSE, NoEntry,
                       IF AddIndex(im, field, indexType).err THEN "error" ELSE "ok")
                    EXCEPT !.arg = indexType]
    /\ UNCHANGED <<data, dirty, file, status, lock, readers, stack, now, cleanup, hist, quiet, stats>>

\* Store.AddToIndex: indexes.Update(key, map[string]interface{}{field: value}),
\* without the store's lock and whatever the document map holds for key
AddToIndex(field, key, tv, ord) ==
    /\ Alive
    /\ LET doc == IF field = "tag" THEN [kind |-> "map", tag |-> tv, title |-> Absent]
                  ELSE [kind |-> "map", tag |-> Absent, title |-> tv]
           r == Update(im, key, doc, ord)
       IN /\ im' = r.im
          /\ last' = Result("AddToIndex", key, FALSE, NoEntry, IF r.panic THEN "panic" ELSE "ok")
    /\ UNCHANGED <<data, dirty, file, status, lock, readers, stack, now, cleanup, hist, quiet, stats>>

\* Store.RemoveIndex
DropIndex(field, indexType) ==
    /\ Alive
    /\ im' = RemoveIndex(im, field, indexType).im
    /\ last' = [Result("RemoveIndex", field, FALSE, NoEntry,
                       IF RemoveIndex(im, field, indexType).err THEN "error" ELSE "ok")
                    EXCEPT !.arg = indexType]
    /\ hist' = [k \in Keys |-> [hist[k] EXCEPT !.ix = @ \ {<<field, indexType>>}]]
    /\ UNCHANGED <<data, dirty, file, status, lock, readers, stack, now, cleanup, quiet, stats>>

\* ------------------------------------------------------- sync, resize, close
\* the map sync encodes: the entries it keeps at the second unixNow
CleanData(m, unixNow) ==
    [k \in Keys |-> IF m[k] # NoEntry /\ SyncKeeps(m[k], unixNow) THEN m[k] ELSE NoEntry]

\* growFile's loop: double from newSize until it is at least requiredSize
RECURSIVE Doubled(_, _)
Doubled(newSize, requiredSize) ==
    IF newSize < requiredSize THEN Doubled(newSize * 2, requiredSize) ELSE newSize

\* file.Truncate(newSize): cut, or extended with zeros
Truncate(f, newSize) ==
    IF newSize <= Len(f) THEN SubSeq(f, 1, newSize) ELSE f \o Zeros(newSize - Len(f))

\* copy(s.mm, data): min(len(s.mm), len(data)) cells
CopyInto(region, bytes) ==
    [i \in 1..Len(region) |-> IF i <= Len(bytes) THEN bytes[i] ELSE region[i]]

\* for i := len(data); i < len(s.mm); i++ { s.mm[i] = 0 }
ZeroFill(region, from) ==
    [i \in 1..Len(region) |-> IF i > from THEN Zero ELSE region[i]]

\* the ticker of periodicSync fires: the goroutine calls s.sync()
PeriodicTick(p) ==
    /\ Alive
    /\ p = "bg"
    /\ Idle(p)
    /\ stack' = [stack EXCEPT ![p] = <<Frame("periodicSync", "sync"), Frame("sync", "start")>>]
    /\ last' = NoLast
    /\ UNCHANGED <<data, dirty, file, status, im, lock, readers, now, cleanup, hist, quiet, stats>>

\* Store.Sync() is called: it calls s.sync() without taking the lock
CallSync(p) ==
    /\ Alive
    /\ p # "bg"
    /\ Idle(p)
    /\ stack' = [stack EXCEPT ![p] = <<Frame("Sync", "sync"), Frame("sync", "start")>>]
    /\ last' = NoLast
    /\ quiet' = "called"
    /\ UNCHANGED <<data, dirty, file, status, im, lock, readers, now, cleanup, hist, stats>>

\* a sync() that encodes and writes whether or not the store is dirty
SyncStartAlways(p) ==
    /\ At(p, "sync", "start")
    /\ LET bytes == Encode(CleanData(data, Unix(now)))
           fr == [Top(p) EXCEPT !.enc = bytes]
       IN /\ stack' = [stack EXCEPT ![p] =
               IF Len(bytes) > Len(MM)
               THEN IF Len(MM) = 0
                    THEN Append(SetTop(@, [fr EXCEPT !.pc = "grow"]), Frame("growFile", "spin"))
                    ELSE Append(SetTop(@, [fr EXCEPT !.pc = "grow"]),
                                [Frame("resize", "lock") EXCEPT
                                   !.newSize = Doubled(Len(MM) * 2, Len(bytes))])
               ELSE SetTop(@, [fr EXCEPT !.pc = "copy"])]
          /\ last' = NoLast
          /\ quiet' = quiet
    /\ UNCHANGED <<data, dirty, file, status, im, lock, readers, now, cleanup, hist, stats>>

\* sync(): the dirty test, the clean map, Encode, and the test for growth
\* (growFile computes the new size from len(s.mm); its loop does not end
\* when len(s.mm) is 0)
SyncStart(p) ==
    /\ At(p, "sync", "start")
    /\ IF ~dirty
       THEN /\ stack' = [stack EXCEPT ![p] = Ret(@)]
            /\ last' = RetLast(stack[p], "ok")
            /\ quiet' = RetQuiet(stack[p], "ok")
       ELSE LET bytes == Encode(CleanData(data, Unix(now)))
                fr == [Top(p) EXCEPT !.enc = bytes]
            IN /\ stack' = [stack EXCEPT ![p] =
                    IF Len(bytes) > Len(MM)
                    THEN IF Len(MM) = 0
                         THEN Append(SetTop(@, [fr EXCEPT !.pc = "grow"]), Frame("growFile", "spin"))
                         ELSE Append(SetTop(@, [fr EXCEPT !.pc = "grow"]),
                                     [Frame("resize", "lock") EXCEPT
                                        !.newSize = Doubled(Len(MM) * 2, Len(bytes))])
                    ELSE SetTop(@, [fr EXCEPT !.pc = "copy"])]
               /\ last' = NoLast
               /\ quiet' = quiet
    /\ UNCHANGED <<data, dirty, file, status, im, lock, readers, now, cleanup, hist, stats>>

\* resize(): s.Lock(), then it calls s.sync() again
ResizeLock(p) ==
    /\ At(p, "resize", "lock")
    /\ LockFree
    /\ lock' = p
    /\ stack' = [stack EXCEPT ![p] =
                    Append(SetTop(@, [Top(p) EXCEPT !.pc = "sync"]), Frame("sync", "start"))]
    /\ last' = NoLast
    /\ UNCHANGED <<data, dirty, file, status, im, readers, now, cleanup, hist, quiet, stats>>

\* resize() after its sync: Unmap, Truncate, Map, unlock, and growFile returns
\* to the sync that called it.  Unmap of a region Close already unmapped
\* fails, and that sync returns the error.
ResizeRemap(p) ==
    /\ At(p, "resize", "remap")
    /\ lock' = "free"
    /\ IF status = "open"
       THEN /\ file' = Truncate(file, Top(p).newSize)
            /\ stack' = [stack EXCEPT ![p] =
                            LET below == Pop(@)
                            IN SetTop(below, [below[Len(below)] EXCEPT !.pc = "copy"])]
            /\ last' = NoLast
            /\ quiet' = quiet
       ELSE /\ file' = file
            /\ stack' = [stack EXCEPT ![p] = Ret(Pop(@))]
            /\ last' = RetLast(Pop(stack[p]), "error")
            /\ quiet' = RetQuiet(Pop(stack[p]), "error")
    /\ UNCHANGED <<data, dirty, status, im, readers, now, cleanup, hist, stats>>

\* sync(): copy(s.mm, data)
SyncCopy(p) ==
    /\ At(p, "sync", "copy")
    /\ file' = IF status = "open" THEN CopyInto(file, Top(p).enc) ELSE file
    /\ stack' = [stack EXCEPT ![p] = SetTop(@, [Top(p) EXCEPT !.pc = "fill"])]
    /\ last' = NoLast
    /\ UNCHANGED <<data, dirty, status, im, lock, readers, now, cleanup, hist, quiet, stats>>

\* sync(): the zero fill, Flush, dirty = false, and the return.  Flush of an
\* unmapped region fails or not with the platform's msync.
SyncFill(p) ==
    /\ At(p, "sync", "fill")
    /\ \E flushed \in IF status = "open" THEN {TRUE} ELSE {TRUE, FALSE} :
        /\ file' = IF status = "open" THEN ZeroFill(file, Len(Top(p).enc)) ELSE file
        /\ dirty' = IF flushed THEN FALSE ELSE dirty
        /\ stack' = [stack EXCEPT ![p] = Ret(@)]
        /\ last' = RetLast(stack[p], IF flushed THEN "ok" ELSE "error")
        /\ quiet' = RetQuiet(stack[p], IF flushed THEN "ok" ELSE "error")
    /\ UNCHANGED <<data, status, im, lock, readers, now, cleanup, hist, stats>>

\* the loop of gcExpiredEntries over the expired keys: [panic, data, im]
RECURSIVE GcFrom(_, _, _, _, _)
GcFrom(m, idx, unixNow, ord, i) ==
    IF i > Len(KeyOrder) THEN [panic |-> FALSE, data |-> m, im |-> idx]
    ELSE LET k == KeyOrder[i]
         IN IF m[k] # NoEntry /\ Expired(m[k], unixNow)
            THEN LET r == Remove(idx, k, ord)
                 IN IF r.panic THEN [panic |-> TRUE, data |-> m, im |-> idx]
                    ELSE GcFrom([m EXCEPT ![k] = NoEntry], r.im, unixNow, ord, i + 1)
            ELSE GcFrom(m, idx, unixNow, ord, i + 1)

\* periodicSync after its sync: gcExpiredEntries, under the write lock
GcExpiredEntries(p, ord) ==
    /\ At(p, "periodicSync", "gc")
    /\ LockFree
    /\ \E r \in {GcFrom(data, im, Unix(now), ord, 1)} :
       LET expiredCount == Cardinality(Present(data)) - Cardinality(Present(r.data))
       IN IF r.panic
          THEN last' = NoLast /\ Crash
          ELSE /\ last' = [Result("gc", "", FALSE, NoEntry, "ok") EXCEPT !.expired = expiredCount]
               /\ data' = r.data
               /\ im' = r.im
               /\ dirty' = IF r.data # data THEN TRUE ELSE dirty
               /\ quiet' = IF r.data # data THEN "no" ELSE quiet
               /\ stack' = [stack EXCEPT ![p] = <<>>]
               /\ UNCHANGED <<file, status, lock, readers, now, cleanup, hist, stats>>

\* Store.Close: s.Lock(), then s.sync()
CallClose(p) ==
    /\ status = "open"
    /\ p # "bg"
    /\ Idle(p)
    /\ LockFree
    /\ lock' = p
    /\ stack' = [stack EXCEPT ![p] = <<Frame("Close", "sync"), Frame("sync", "start")>>]
    /\ last' = NoLast
    /\ quiet' = IF quiet = "returned" THEN "closing" ELSE "no"
    /\ UNCHANGED <<data, dirty, file, status, im, readers, now, cleanup, hist, stats>>

\* Store.Close after its sync: s.mm.Unmap(), unlock, return
CloseUnmap(p) ==
    /\ At(p, "Close", "unmap")
    /\ status' = "closed"
    /\ lock' = "free"
    /\ stack' = [stack EXCEPT ![p] = <<>>]
    /\ last' = Result("Close", "", FALSE, NoEntry, "ok")
    /\ quiet' = IF quiet = "closing" THEN "closed" ELSE quiet
    /\ UNCHANGED <<data, dirty, file, im, readers, now, cleanup, hist, stats>>

\* Store.Search: s.RLock(), then it ranges over s.indexes.text and
\* s.indexes.vectors (the IndexManager's lock is not taken)
SearchStart(p, q) ==
    /\ Alive
    /\ p # "bg"
    /\ Idle(p)
    /\ lock = "free"
    /\ readers' = readers \cup {p}
    /\ stack' = [stack EXCEPT ![p] = <<[Frame("Search", "range") EXCEPT !.query = q]>>]
    /\ last' = NoLast
    /\ UNCHANGED <<data, dirty, file, status, im, lock, now, cleanup, hist, quiet, stats>>

\* Store.Search searches the indexes, combines, sorts, cuts and returns (a
\* panic unwinds through the deferred RUnlock)
SearchReturn(p, ord) ==
    /\ At(p, "Search", "range")
    /\ readers' = readers \ {p}
    /\ stack' = [stack EXCEPT ![p] = <<>>]
    /\ \E o \in SearchOutcomes(Top(p).query, data, im, ord) :
        last' = [Result("Search", "", FALSE, NoEntry, o.outcome)
                    EXCEPT !.query = Top(p).query, !.res = o.res, !.list = o.list]
    /\ UNCHANGED <<data, dirty, file, status, im, lock, now, cleanup, hist, quiet, stats>>

\* VectorIndex.BatchSearch is called on the index of field with the list
\* queries: one goroutine per query is started, and the caller waits (the
\* index stays in the manager while the call runs)
BatchSearchStart(p, field, queries, k) ==
    /\ Alive
    /\ p # "bg"
    /\ Idle(p)
    /\ im.vectors[field].exists
    /\ stack' = [stack EXCEPT ![p] =
            <<[Frame("BatchSearch", "wait") EXCEPT !.batch =
                [field |-> field, k |-> k, errCh |-> <<>>,
                 workers |-> [i \in 1..Len(queries) |->
                    [q |-> queries[i], st |-> "run", res |-> {},
                     seen |-> [d \in Keys |-> Absent]]]]]>>]
    /\ last' = NoLast
    /\ UNCHANGED <<data, dirty, file, status, im, lock, readers, now, cleanup, hist, quiet, stats>>

\* the goroutine of query idx runs vi.Search(q, k) under the index's read
\* lock: it sends the error to errCh, or stores the result in results[idx];
\* a panic in the goroutine ends the process
BatchSearchWorker(p, idx) ==
    /\ At(p, "BatchSearch", "wait")
    /\ idx \in 1..Len(Top(p).batch.workers)
    /\ Top(p).batch.workers[idx].st = "run"
    /\ last' = NoLast
    /\ \E r \in {VectorSearch(im.vectors[Top(p).batch.field],
                               Top(p).batch.workers[idx].q, Top(p).batch.k)} :
        IF r.panic THEN Crash
        ELSE /\ \E h \in r.hits :
                  stack' = [stack EXCEPT ![p] = SetTop(@, [Top(p) EXCEPT
                    !.batch.workers[idx].st = IF r.err THEN "err" ELSE "done",
                    !.batch.workers[idx].res = h,
                    !.batch.workers[idx].seen = im.vectors[Top(p).batch.field].vectors,
                    !.batch.errCh = IF r.err THEN Append(@, idx) ELSE @])]
             /\ UNCHANGED <<data, dirty, file, status, im, lock, readers, now, cleanup,
                            hist, quiet, stats>>

\* a BatchSearch that returns the results whether or not an error was sent
BatchSearchReturnAll(p) ==
    /\ At(p, "BatchSearch", "wait")
    /\ \A i \in 1..Len(Top(p).batch.workers) : Top(p).batch.workers[i].st # "run"
    /\ stack' = [stack EXCEPT ![p] = <<>>]
    /\ last' = [Result("BatchSearch", Top(p).batch.field, FALSE, NoEntry, "ok")
                    EXCEPT !.list = [i \in 1..Len(Top(p).batch.workers) |->
                                        Top(p).batch.workers[i].res]]
    /\ UNCHANGED <<data, dirty, file, status, im, lock, readers, now, cleanup, hist, quiet, stats>>

\* BatchSearch after wg.Wait() and close(errCh): the first error of errCh
\* and no results, or the results in the order of the queries
BatchSearchReturn(p) ==
    /\ At(p, "BatchSearch", "wait")
    /\ \A i \in 1..Len(Top(p).batch.workers) : Top(p).batch.workers[i].st # "run"
    /\ stack' = [stack EXCEPT ![p] = <<>>]
    /\ last' = IF Top(p).batch.errCh # <<>>
               THEN Result("BatchSearch", Top(p).batch.field, FALSE, NoEntry, "error")
               ELSE [Result("BatchSearch", Top(p).batch.field, FALSE, NoEntry, "ok")
                        EXCEPT !.list = [i \in 1..Len(Top(p).batch.workers) |->
                                            Top(p).batch.workers[i].res]]
    /\ UNCHANGED <<data, dirty, file, status, im, lock, readers, now, cleanup, hist, quiet, stats>>

\* len(idx.docs), len(idx.vectors) and tree.Len() added up over the indexes
\* of one type that exist
TextEntries(m) ==
    LET n(f) == IF m.text[f].exists
                THEN Cardinality({k \in Keys : m.text[f].docs[k] # Absent}) ELSE 0
    IN n("tag") + n("title")
VectorEntries(m) ==
    LET n(f) == IF m.vectors[f].exists
                THEN Cardinality({k \in Keys : m.vectors[f].vectors[k] # Absent}) ELSE 0
    IN n("tag") + n("title")
TreeEntries(m) ==
    LET n(f) == IF m.trees[f].exists THEN Len(m.trees[f].items) ELSE 0
    IN n("tag") + n("title")

\* Store.GetStats: under the stats mutex only, EntryCount is set to
\* len(s.data), the counts of the indexes are added to the EntryCount fields
\* of IndexStats (+=, they are not reset), and a copy of s.stats is returned
GetStats(p) ==
    /\ Alive
    /\ p # "bg"
    /\ Idle(p)
    /\ stats.text + TextEntries(im) <= MaxStat
    /\ stats.vectors + VectorEntries(im) <= MaxStat
    /\ stats.trees + TreeEntries(im) <= MaxStat
    /\ stats' = [entryCount |-> Cardinality({k \in Keys : data[k] # NoEntry}),
                 text |-> stats.text + TextEntries(im),
                 vectors |-> stats.vectors + VectorEntries(im),
                 trees |-> stats.trees + TreeEntries(im)]
    /\ last' = Result("GetStats", "", FALSE, NoEntry, "ok")
    /\ UNCHANGED <<data, dirty, file, status, im, lock, readers, stack, now, cleanup,
                   hist, quiet>>

\* the loop of load over the decoded entries: indexes.Update for each entry
\* that is not expired (the new IndexManager holds no index yet)
RECURSIVE LoadIndexes(_, _, _, _)
LoadIndexes(m, idx, unixNow, i) ==
    IF i > Len(KeyOrder) THEN idx
    ELSE LET k == KeyOrder[i]
         IN IF m[k] # NoEntry /\ ~Expired(m[k], unixNow)
            THEN LoadIndexes(m, Update(idx, k, m[k].Value, <<"tag", "title">>).im, unixNow, i + 1)
            ELSE LoadIndexes(m, idx, unixNow, i + 1)

\* Store.load: [ok, data, im] from the mapped file; the decoded map replaces
\* s.data whole, expired entries included
Load(region, unixNow) ==
    LET size == findContentSize(region)
    IN IF size = 0 THEN [ok |-> TRUE, data |-> EmptyMap, im |-> NewIndexManager]
       ELSE LET d == Decode(SubSeq(region, 1, size))
            IN [ok |-> d.ok, data |-> d.data,
                im |-> LoadIndexes(d.data, NewIndexManager, unixNow, 1)]

\* NewStore on the existing file, after Close or after the process ended
Reopen ==
    /\ status # "open"
    /\ LET f == IF Len(file) < InitialSize THEN Truncate(file, InitialSize) ELSE file
           l == Load(f, Unix(now))
       IN IF l.ok
          THEN /\ file' = f
               /\ data' = l.data
               /\ im' = l.im
               /\ status' = "open"
               /\ dirty' = FALSE
               /\ lock' = "free"
               /\ readers' = {}
               /\ stack' = [p \in Procs |-> <<>>]
               /\ cleanup' = [k \in Keys |-> 0]
               /\ hist' = [k \in Keys |-> NoHist]
               /\ quiet' = "no"
               /\ stats' = NoStats
               /\ last' = Result("NewStore", "", FALSE, NoEntry, "ok")
          ELSE /\ file' = f
               /\ last' = Result("NewStore", "", FALSE, NoEntry, "error")
               /\ UNCHANGED <<data, dirty, status, im, lock, readers, stack, cleanup, hist, quiet, stats>>
    /\ UNCHANGED now

\* ------------------------------------------------------------ specifications
\* the steps a goroutine inside resize() can take
ResizeSteps ==
    \/ \E p \in Procs : ResizeLock(p)
    \/ \E p \in Procs : ResizeRemap(p)

\* the steps a goroutine inside sync() can take
SyncSteps ==
    \/ \E p \in Procs : SyncStart(p)
    \/ \E p \in Procs : SyncCopy(p)
    \/ \E p \in Procs : SyncFill(p)

\* TTL and expiry: one key written with and without a ttl while the clock
\* runs, read by Get, cleaned by the goroutines Get starts and by the
\* periodic task
NextTTL ==
    \/ Tick
    \/ Get("a")
    \/ \E v \in {Scalar42, DocRed} : Set("a", v, <<"tag", "title">>)
    \/ \E v \in {Scalar42, DocRed}, d \in Durations : SetWithTTL("a", v, d, <<"tag", "title">>)
    \/ Delete("a", <<"tag", "title">>)
    \/ AsyncDelete("a", <<"tag", "title">>)
    \/ PeriodicTick("bg")
    \/ SyncSteps
    \/ GcExpiredEntries("bg", <<"tag", "title">>)
    \/ CallClose("cl")
    \/ CloseUnmap("cl")
    \/ Reopen

SpecTTL == Init /\ [][NextTTL]_vars

\* indexes: documents of several kinds written and deleted while indexes
\* are created and removed and a Search is under way
NextIndex ==
    \/ \E k \in Keys, v \in IndexValues : Set(k, v, <<"tag", "title">>)
    \/ \E k \in Keys : Delete(k, <<"tag", "title">>)
    \/ \E x \in IndexInputs : CreateIndex(x[1], x[2])
    \/ \E x \in IndexInputs : DropIndex(x[1], x[2])
    \/ AddToIndex("title", "b", StrBlue, <<"tag", "title">>)
    \/ SearchStart("cl", TextRed)
    \/ SearchReturn("cl", <<"tag", "title">>)

SpecIndex == Init /\ [][NextIndex]_vars

\* an ordered index and a text index under overwrites: documents with equal
\* and with different values of the indexed field, of one type and of two
NextOrdered ==
    \/ \E k \in Keys, v \in OrderedValues : Set(k, v, <<"tag", "title">>)
    \/ \E k \in Keys : Delete(k, <<"tag", "title">>)
    \/ \E x \in OrderedInputs : CreateIndex(x[1], x[2])
    \/ \E x \in OrderedInputs : DropIndex(x[1], x[2])

SpecOrdered == Init /\ [][NextOrdered]_vars

\* search: documents with texts, vectors and tags under text, vector and
\* ordered indexes, searched by text, by vector, by filter and by their
\* combinations
SearchInputs == {<<"title", "text">>, <<"tag", "text">>, <<"tag", "vector">>, <<"tag", "btree">>}
SearchValues == {DocRedo, DocVec}
SearchQueries ==
    {TextRedo,
     FilterRed,
     [TextRed EXCEPT !.filters["tag"] = StrBlue],
     [TextRed EXCEPT !.vector = VecE1],
     [TextRed EXCEPT !.vector = VecE1, !.maxResults = 2],
     [TextRed EXCEPT !.vector = Vec3],
     [NoQuery EXCEPT !.vector = VecE1, !.maxResults = -1]}

NextSearch ==
    \/ \E k \in Keys, v \in SearchValues : Set(k, v, <<"tag", "title">>)
    \/ \E x \in SearchInputs : CreateIndex(x[1], x[2])
    \/ \E q \in SearchQueries : SearchStart("cl", q)
    \/ \E o \in FieldOrders : SearchReturn("cl", o)

SpecSearch == Init /\ [][NextSearch]_vars

\* a vector index: documents with vectors of the index's dimension and of
\* another, searched by vectors of both
VectorValues == {DocVec, DocVecE2, DocVec3}
VectorQueries ==
    {[NoQuery EXCEPT !.vector = VecE1, !.maxResults = 2],
     [NoQuery EXCEPT !.vector = Vec3, !.maxResults = 2]}

NextVector ==
    \/ \E k \in Keys, v \in VectorValues : Set(k, v, <<"tag", "title">>)
    \/ \E k \in Keys : Delete(k, <<"tag", "title">>)
    \/ CreateIndex("tag", "vector")
    \/ DropIndex("tag", "vector")
    \/ \E q \in VectorQueries : SearchStart("cl", q)
    \/ SearchReturn("cl", <<"tag", "title">>)

SpecVector == Init /\ [][NextVector]_vars

\* the results of a Search: a text index and a vector index, documents hit
\* by one or by both, an index entry for a key the map may not hold
ResultValues == {DocVec, DocRedo}
ResultQueries == {[TextRed EXCEPT !.vector = VecE1, !.maxResults = n] : n \in {1, 2}}

NextResults ==
    \/ \E k \in Keys, v \in ResultValues : Set(k, v, <<"tag", "title">>)
    \/ \E k \in Keys : Delete(k, <<"tag", "title">>)
    \/ \E x \in {<<"title", "text">>, <<"tag", "vector">>} : CreateIndex(x[1], x[2])
    \/ AddToIndex("title", "b", StrRed, <<"tag", "title">>)
    \/ \E q \in ResultQueries : SearchStart("cl", q)
    \/ \E o \in FieldOrders : SearchReturn("cl", o)

SpecResults == Init /\ [][NextResults]_vars

\* a text index: documents whose titles share grams, in lower and in upper
\* case, written, overwritten and deleted
TrigramValues == {DocRed, DocRedo, DocRED, DocBlue}

NextTrigram ==
    \/ \E k \in Keys, v \in TrigramValues : Set(k, v, <<"tag", "title">>)
    \/ \E k \in Keys : Delete(k, <<"tag", "title">>)
    \/ CreateIndex("title", "text")
    \/ DropIndex("title", "text")

SpecTrigram == Init /\ [][NextTrigram]_vars

\* persistence: writes, the periodic task, Sync, Close and reopening
NextSync ==
    \/ \E k \in Keys : Set(k, Scalar42, <<"tag", "title">>)
    \/ Set("a", DocRed, <<"tag", "title">>)
    \/ \E k \in Keys : Delete(k, <<"tag", "title">>)
    \/ PeriodicTick("bg")
    \/ CallSync("cl")
    \/ SyncSteps
    \/ ResizeSteps
    \/ GcExpiredEntries("bg", <<"tag", "title">>)
    \/ CallClose("cl")
    \/ CloseUnmap("cl")
    \/ Reopen

SpecSync == Init /\ [][NextSync]_vars

\* growth: a store opened with a small file, written and emptied while the
\* periodic task and two request workers sync
NextGrow ==
    \/ \E k \in Keys : Set(k, Scalar42, <<"tag", "title">>)
    \/ Delete("a", <<"tag", "title">>)
    \/ PeriodicTick("bg")
    \/ \E p \in {"cl", "c2"} : CallSync(p)
    \/ SyncSteps
    \/ ResizeSteps
    \/ GcExpiredEntries("bg", <<"tag", "title">>)

SpecGrow == InitSmall /\ [][NextGrow]_vars

\* the periodic task's collection of expired entries: one key written with
\* a ttl and one without, under an ordered and a vector index, while the
\* clock runs
ExpireValues == {DocVec}
ExpireInputs == {<<"tag", "btree">>, <<"tag", "vector">>}

NextExpire ==
    \/ Tick
    \/ \E v \in ExpireValues : Set("b", v, <<"tag", "title">>)
    \/ \E v \in ExpireValues : SetWithTTL("a", v, SubSec, <<"tag", "title">>)
    \/ \E x \in ExpireInputs : CreateIndex(x[1], x[2])
    \/ PeriodicTick("bg")
    \/ SyncSteps
    \/ GcExpiredEntries("bg", <<"tag", "title">>)

SpecExpire == Init /\ [][NextExpire]_vars

\* a batch of vector searches: lists of none, one and two queries, of the
\* index's dimension and of another, while documents are written and deleted
BatchValues == {DocVec, DocVecE2}
BatchQueries == {<<>>, <<VecE1>>, <<VecE1, VecE2>>, <<VecE2, VecE1>>, <<VecE1, Vec3>>}
BatchK == {1, 2}

NextBatch ==
    \/ \E k \in Keys, v \in BatchValues : Set(k, v, <<"tag", "title">>)
    \/ \E k \in Keys : Delete(k, <<"tag", "title">>)
    \/ CreateIndex("tag", "vector")
    \/ \E qs \in BatchQueries, k \in BatchK : BatchSearchStart("cl", "tag", qs, k)
    \/ \E i \in 1..2 : BatchSearchWorker("cl", i)
    \/ BatchSearchReturn("cl")

SpecBatch == Init /\ [][NextBatch]_vars

\* the store with three indexes, written, and asked for its statistics
StatsValues == {DocVec}
StatsInputs == {<<"title", "btree">>, <<"title", "text">>, <<"tag", "vector">>}
NextStats ==
    \/ \E k \in Keys, v \in StatsValues : Set(k, v, <<"tag", "title">>)
    \/ \E k \in Keys : Delete(k, <<"tag", "title">>)
    \/ \E x \in StatsInputs : CreateIndex(x[1], x[2])
    \/ GetStats("cl")

SpecStats == Init /\ [][NextStats]_vars

\* sync() reached from its three callers, Sync(), the periodic task and
\* resize, on a store that is dirty at some times and clean at others
NextClean ==
    \/ \E k \in Keys : Set(k, Scalar42, <<"tag", "title">>)
    \/ Delete("a", <<"tag", "title">>)
    \/ PeriodicTick("bg")
    \/ CallSync("cl")
    \/ SyncSteps
    \/ ResizeSteps
    \/ GcExpiredEntries("bg", <<"tag", "title">>)

SpecClean == Init /\ [][NextClean]_vars

\* every operation, with every input
Next ==
    \/ Tick
    \/ \E k \in Keys : Get(k)
    \/ \E k \in Keys, v \in Values, o \in FieldOrders : Set(k, v, o)
    \/ \E k \in Keys, v \in Values, d \in Durations, o \in FieldOrders : SetWithTTL(k, v, d, o)
    \/ \E k \in Keys, o \in FieldOrders : Delete(k, o)
    \/ \E k \in Keys, o \in FieldOrders : AsyncDelete(k, o)
    \/ \E x \in IndexInputs : CreateIndex(x[1], x[2])
    \/ \E x \in IndexInputs : DropIndex(x[1], x[2])
    \/ \E f \in IndexFields, k \in Keys, tv \in {StrBlue, StrRed, Int7, VecE1}, o \in FieldOrders :
            AddToIndex(f, k, tv, o)
    \/ \E p \in Procs : PeriodicTick(p)
    \/ \E p \in Procs : CallSync(p)
    \/ \E p \in Procs : SyncStart(p)
    \/ \E p \in Procs : ResizeLock(p)
    \/ \E p \in Procs : ResizeRemap(p)
    \/ \E p \in Procs : SyncCopy(p)
    \/ \E p \in Procs : SyncFill(p)
    \/ \E p \in Procs, o \in FieldOrders : GcExpiredEntries(p, o)
    \/ \E p \in Procs : CallClose(p)
    \/ \E p \in Procs : CloseUnmap(p)
    \/ \E p \in Procs, q \in Queries : SearchStart(p, q)
    \/ \E p \in Procs, o \in FieldOrders : SearchReturn(p, o)
    \/ Reopen

Spec == Init /\ [][Next]_vars


\* ------------------------------------------------------------------- claims
Bottom(p) == stack[p][1]

\* p waits in resize() for the write lock it holds itself: sync.RWMutex is
\* not reentrant, so p and every later locker are blocked for good
SelfDeadlocked(p) == At(p, "resize", "lock") /\ lock = p

\* p is inside a sync() that has read the map and not yet returned
MidSync(p) == \E i \in 1..Len(stack[p]) : stack[p][i].fn = "sync" /\ stack[p][i].pc # "start"

\* C1: once Set(k, v) has returned, a later Get(k) returns v, unless a
\* client wrote or deleted k since (hist[k] holds the last completed client
\* write); cleanup goroutines and the periodic task do not count.
C1_ReadYourWrites ==
    \A k \in Keys :
        (last.op = "Get" /\ last.key = k /\ hist[k].op = "Set")
            => (last.found /\ last.entry.Value = hist[k].value)

\* C2: Get never returns an expired entry: when the stored entry of the key
\* has TTL > 0 and now > timestamp + TTL, the Get that just returned
\* reported the key absent.
C2_GetNeverExpired ==
    \A k \in Keys :
        (last.op = "Get" /\ last.key = k /\ data[k] # NoEntry
         /\ data[k].TTL > 0 /\ Unix(now) > data[k].Timestamp + data[k].TTL)
            => (~last.found /\ last.entry = NoEntry)

\* C2 witness: a Get has just returned for a key whose expired entry is
\* still in the map (no GC and no cleanup has removed it yet).
C2_Witness ==
    \E k \in Keys :
        /\ last.op = "Get" /\ last.key = k /\ ~last.found
        /\ data[k] # NoEntry /\ data[k].TTL > 0
        /\ Unix(now) > data[k].Timestamp + data[k].TTL

\* C3: after SetWithTTL(k, v, D) with D a positive whole number of seconds
\* and no later write to k, a Get(k) made more than D after the write
\* returns absent, whatever the phase of the clock at the write.
C3_TTLExpiry ==
    \A k \in Keys :
        (last.op = "Get" /\ last.key = k /\ hist[k].op = "SetWithTTL"
         /\ hist[k].d % SubSec = 0 /\ now - hist[k].at > hist[k].d)
            => ~last.found

\* C4: a Delete of a present key completes (no panic) and leaves the key in
\* neither the document map nor any index, and the state dirty.
C4_DeleteRemovesEverywhere ==
    \A k \in Keys :
        (last.op = "Delete" /\ last.key = k /\ last.found)
            => /\ last.outcome = "ok"
               /\ data[k] = NoEntry
               /\ k \notin IndexedKeys(im)
               /\ dirty

\* what reopening the file yields agrees with the map m: the same keys with
\* the same values
LoadedAgrees(region, unixNow, m) ==
    LET l == Load(region, unixNow)
    IN /\ l.ok
       /\ \A k \in Keys :
            /\ (l.data[k] = NoEntry) <=> (m[k] = NoEntry)
            /\ l.data[k].Value = m[k].Value

\* C5: after Set calls followed by a Sync() that returned and then a Close
\* that returned, with no write since the Sync was called, reopening the
\* file yields the map's keys and values (no entry has a ttl).
C5_RoundTrip ==
    (status = "closed" /\ quiet = "closed" /\ \A k \in Keys : data[k].TTL = 0)
        => LoadedAgrees(file, Unix(now), data)

\* C6: when a Sync() that encoded dirty state returns without error, the
\* region starts with the bytes it encoded, is zero after them, and the
\* dirty flag is false.
C6_FlushPostcondition ==
    (last.op = "Sync" /\ last.outcome = "ok" /\ last.enc # <<>> /\ status = "open")
        => /\ Len(last.enc) <= Len(file)
           /\ SubSeq(file, 1, Len(last.enc)) = last.enc
           /\ \A i \in (Len(last.enc) + 1)..Len(file) : file[i] = Zero
           /\ ~dirty

\* C7: a Sync() or a periodic sync whose encoding is longer than the region
\* terminates: it never waits for a lock that only it can release.
C7_GrowthTerminates ==
    \A p \in Procs :
        (~Idle(p) /\ Bottom(p).fn \in {"Sync", "periodicSync"}) => ~SelfDeadlocked(p)

\* C8: Close always returns: a process inside Close never waits for a lock
\* that only it can release.
C8_CloseReturns ==
    \A p \in Procs : (~Idle(p) /\ Bottom(p).fn = "Close") => ~SelfDeadlocked(p)

\* C9: a sync that has read the document map, and until it has written the
\* region and cleared dirty, holds the store's write lock.
C9_WriterExclusion == \A p \in Procs : MidSync(p) => lock = p

\* C10: while a Search ranges over the IndexManager's maps, no CreateIndex
\* or RemoveIndex changes the keys of those maps.
C10_IndexMapLocking ==
    [][(\E p \in Procs : At(p, "Search", "range")) => IndexMapKeys(im') = IndexMapKeys(im)]_vars

\* the index on field f of each kind agrees with what the map holds for k:
\* an index holds k only if k's value is a mapping with a value of the
\* index's kind at f
NoStale(k, f) ==
    LET tv == IF data[k] # NoEntry /\ data[k].Value.kind = "map"
              THEN FieldOf(data[k].Value, f) ELSE Absent
    IN /\ k \in TextKeys(im.text[f]) => tv.t = "string"
       /\ k \in VectorKeys(im.vectors[f]) => tv.t = "[]float32"
       /\ k \in TreeKeys(im.trees[f]) => tv.t \in {"string", "int", "float64"}

\* C11: indexes are derivatives of the document map; in particular, once a
\* Set of k has returned normally, no index holds an entry for k that the
\* new value of k does not justify (a value without the field, or a
\* non-mapping value, leaves no stale entry).
C11_NoStaleAfterOverwrite ==
    \A k \in Keys, f \in IndexFields :
        (last.op = "Set" /\ last.key = k /\ last.outcome = "ok") => NoStale(k, f)

\* C12: for every key written since a text index on f exists, whose current
\* value is a mapping with a string at f, the index stores that string for
\* the key; and a vector index on f, for a vector of its dimension, stores
\* the normalization of the current vector.
C12_TextVectorCoherence ==
    \A k \in Keys, f \in IndexFields :
        LET tv == IF data[k] # NoEntry /\ data[k].Value.kind = "map"
                  THEN FieldOf(data[k].Value, f) ELSE Absent
        IN /\ (<<f, "text">> \in hist[k].ix /\ tv.t = "string")
                => im.text[f].docs[k] = tv
           /\ (<<f, "vector">> \in hist[k].ix /\ tv.t = "[]float32"
               /\ VecLen(tv) = im.vectors[f].dim)
                => im.vectors[f].vectors[k] = normalizeVector(tv)

\* the positions of the items of key k in an ordered index
ItemsOf(tree, k) == {i \in 1..Len(tree.items) : tree.items[i].key = k}

\* C13: with an ordered index on f, every key written since the index
\* exists whose current value has a scalar at f is in the index exactly
\* once, paired with that scalar (no item of an older value remains, and two
\* keys with the same scalar are both there).
C13_OrderedCoherence ==
    \A k \in Keys, f \in IndexFields :
        LET tv == IF data[k] # NoEntry /\ data[k].Value.kind = "map"
                  THEN FieldOf(data[k].Value, f) ELSE Absent
        IN (<<f, "btree">> \in hist[k].ix /\ tv.t \in {"string", "int", "float64"})
            => /\ Cardinality(ItemsOf(im.trees[f], k)) = 1
               /\ \A i \in ItemsOf(im.trees[f], k) : im.trees[f].items[i].value = tv

\* C14: every entry of the map that is not expired is reflected in every
\* existing index whose field holds, in the entry's mapping, a value of the
\* index's kind.
C14_LiveEntriesIndexed ==
    \A k \in Keys, f \in IndexFields :
        LET tv == IF data[k] # NoEntry /\ ~Expired(data[k], Unix(now))
                     /\ data[k].Value.kind = "map"
                  THEN FieldOf(data[k].Value, f) ELSE Absent
        IN /\ (im.text[f].exists /\ tv.t = "string") => im.text[f].docs[k] = tv
           /\ (im.vectors[f].exists /\ tv.t = "[]float32" /\ VecLen(tv) = im.vectors[f].dim)
                => im.vectors[f].vectors[k] = normalizeVector(tv)
           /\ (im.trees[f].exists /\ tv.t \in {"string", "int", "float64"})
                => \E i \in ItemsOf(im.trees[f], k) : im.trees[f].items[i].value = tv

\* C19: no panic escapes the core: no call ends in a panic, and no
\* goroutine of the store ends the process with one.
C19_NoPanic == last.outcome # "panic" /\ status # "crashed"

\* C20: CreateIndex(field, type) with type text, vector or ordered ("btree"
\* in the code) returns no error and the index exists afterwards; with any
\* other type it returns an error and changes nothing.
C20_CreateIndex ==
    [][\A x \in IndexInputs :
        (last'.op = "CreateIndex" /\ last'.key = x[1] /\ last'.arg = x[2])
            => IF x[2] \in IndexTypes
               THEN last'.outcome = "ok" /\ x \in IndexMapKeys(im')
               ELSE /\ last'.outcome = "error"
                    /\ im' = im /\ data' = data /\ dirty' = dirty /\ file' = file
                    /\ IndexMapKeys(im') = IndexMapKeys(im)]_vars

\* C20 witness: a CreateIndex with an unknown type has just returned its
\* error in a store that holds indexes created before.
C20_Witness ==
    /\ last.op = "CreateIndex" /\ last.arg = "hash" /\ last.outcome = "error"
    /\ IndexMapKeys(im) # {}

\* q occurs in t as a contiguous run of characters
Substring(q, t) == \E i \in 1..(Len(t) - Len(q) + 1) : SubSeq(t, i, i + Len(q) - 1) = q

\* C15: a text index on f exists since Set(k, v) with a string v[f]
\* returned, and k was not written or deleted since: a Search by text alone,
\* with no limit on the results and min_score <= 1, whose text has at least
\* 3 characters and occurs in v[f], returns a result for k with
\* text_score = 1.0.
C15_PostSetVisibility ==
    \A k \in Keys, f \in IndexFields :
        LET q == last.query
            tv == IF data[k] # NoEntry /\ data[k].Value.kind = "map"
                  THEN FieldOf(data[k].Value, f) ELSE Absent
        IN (/\ last.op = "Search"
            /\ q.text # 0 /\ q.vector = Absent /\ q.maxResults = 0 /\ q.minScore <= 4
            /\ \A g \in IndexFields : q.filters[g] = Absent
            /\ hist[k].op = "Set" /\ <<f, "text">> \in hist[k].ix
            /\ tv.t = "string"
            /\ Len(TextOf(q.text)) >= 3 /\ Substring(TextOf(q.text), TextOf(tv.v)))
            => /\ last.outcome = "ok"
               /\ \E r \in last.res : r.key = k /\ r.text = 4

\* the keys whose item in the ordered index of every filter field that has
\* one carries the filter's value
FilterSet(m, filters) ==
    {k \in Keys :
        \A f \in {g \in IndexFields : filters[g] # Absent /\ m.trees[g].exists} :
            \E i \in ItemsOf(m.trees[f], k) : m.trees[f].items[i].value = filters[f]}

HasFilter(m, q) == \E f \in IndexFields : q.filters[f] # Absent /\ m.trees[f].exists

\* C16: when the filters of a Search name a field with an ordered index,
\* every result's key is in the intersection of the per-field key sets; if
\* that intersection is empty there is no result.
C16_FiltersRestrict ==
    (last.op = "Search" /\ last.outcome = "ok" /\ HasFilter(im, last.query))
        => \A r \in last.res : r.key \in FilterSet(im, last.query.filters)

\* C17: a Search with filters only (no text, no vector, no limit) on a
\* field with an ordered index returns exactly the documents the index
\* holds with the filter's value.
C17_FilterOnly ==
    (/\ last.op = "Search" /\ last.outcome = "ok" /\ HasFilter(im, last.query)
     /\ last.query.text = 0 /\ last.query.vector = Absent /\ last.query.maxResults = 0)
        => {r.key : r \in last.res} = FilterSet(im, last.query.filters) \cap Present(data)

\* k is hit by a text index / by a vector index for the query q
TextHit(k, q) ==
    \E f \in IndexFields :
        /\ im.text[f].exists
        /\ \E h \in TrigramSearch(im.text[f], TextOf(q.text)) : h.key = k /\ h.s >= q.minScore
VectorHit(k, q) ==
    \E f \in IndexFields : im.vectors[f].exists /\ k \in VectorKeys(im.vectors[f])

\* C18: a Search with text and vector and no filter, with max_results unset
\* (0) or at least the number of documents, returns for a document of the
\* map hit by a text index and by a vector index one result with
\* vector_score its similarity and combined = (text_score + vector_score)/2,
\* and for a document hit by a vector index only one with
\* combined = vector_score.
C18_CombinedScore ==
    \A k \in Keys :
        LET q == last.query
            mine == {r \in last.res : r.key = k}
            sim == {cosineSimilarity(normalizeVector(q.vector), im.vectors[f].vectors[k]) :
                        f \in {g \in IndexFields : im.vectors[g].exists
                                                  /\ k \in VectorKeys(im.vectors[g])}}
        IN (/\ last.op = "Search" /\ last.outcome = "ok"
            /\ q.text # 0 /\ q.vector # Absent
            /\ \A g \in IndexFields : q.filters[g] = Absent
            /\ q.maxResults = 0 \/ q.maxResults >= Cardinality(Keys)
            /\ data[k] # NoEntry /\ VectorHit(k, q))
            => /\ Cardinality(mine) = 1
               /\ \A r \in mine :
                    /\ r.vec \in sim
                    /\ r.s = IF TextHit(k, q) THEN (r.text + r.vec) \div 2 ELSE r.vec

\* the index maps m and n agree on every (field, type) other than x
SameBut(m, n, x) ==
    \A f \in IndexFields :
        /\ x # <<f, "btree">> => n.trees[f] = m.trees[f]
        /\ x # <<f, "vector">> => n.vectors[f] = m.vectors[f]
        /\ x # <<f, "text">> => n.text[f] = m.text[f]

\* C21: RemoveIndex(field, type) of an index that exists returns no error
\* and removes that index and no other; with an unknown type, or with no
\* index of that type on the field, it returns an error and leaves the index
\* maps as they were (an index of another type on the field stays).
C21_RemoveIndex ==
    [][\A x \in IndexInputs :
        (last'.op = "RemoveIndex" /\ last'.key = x[1] /\ last'.arg = x[2])
            => IF x \in IndexMapKeys(im)
               THEN /\ last'.outcome = "ok"
                    /\ IndexMapKeys(im') = IndexMapKeys(im) \ {x}
                    /\ SameBut(im, im', x)
               ELSE last'.outcome = "error" /\ im' = im]_vars

\* C21 witness: RemoveIndex("tag", "btree") has just failed for want of an
\* ordered index on tag, and the vector index on tag is still there.
C21_Witness ==
    /\ last.op = "RemoveIndex" /\ last.key = "tag" /\ last.arg = "btree"
    /\ last.outcome = "error"
    /\ im.vectors["tag"].exists /\ ~im.trees["tag"].exists

\* the vector indexes whose dimension differs from the length of tv
Mismatched(m, tv) ==
    {f \in IndexFields : m.vectors[f].exists /\ VecLen(tv) # m.vectors[f].dim}

\* C22: a Set or SetWithTTL of a document whose field under a vector index
\* holds a vector of another length than the index's dimension returns an
\* error, and a Search whose vector has another length than the dimension
\* of a vector index returns an error.
C22_DimensionMismatchReported ==
    /\ \A f \in IndexFields :
        LET tv == FieldOf(data[last.key].Value, f)
        IN (/\ last.op \in {"Set", "SetWithTTL"}
            /\ data[last.key].Value.kind = "map"
            /\ tv.t = "[]float32" /\ f \in Mismatched(im, tv))
            => last.outcome = "error"
    /\ (/\ last.op = "Search" /\ last.query.vector # Absent
        /\ Mismatched(im, last.query.vector) # {})
            => last.outcome = "error"

\* C23: a sync that returns an error, to Sync() or to any other caller,
\* leaves the dirty flag true and the document map as it was.
C23_FailedSyncStaysDirty ==
    [][(last'.op \in {"Sync", "sync"} /\ last'.outcome = "error")
            => (dirty' /\ data' = data)]_vars

\* C24: the backing file's length never decreases, whatever the step.
C24_FileNeverShrinks == [][Len(file') >= Len(file)]_vars

\* C25: a Search that no vector of a wrong length and no negative limit
\* makes fail returns, and every result has a key that the document map
\* holds, with the value the map holds for it; the hit of an index for a key
\* missing from the map gives no result.
C25_ResultsExist ==
    (/\ last.op = "Search"
     /\ Mismatched(im, last.query.vector) = {} /\ last.query.maxResults >= 0
     /\ \A f \in IndexFields : last.query.filters[f] = Absent)
        => /\ last.outcome = "ok"
           /\ \A r \in last.res : data[r.key] # NoEntry /\ r.value = data[r.key].Value

\* C25 witness: a Search has returned results while a text index holds a
\* hit for a key that is not in the document map.
C25_Witness ==
    /\ last.op = "Search" /\ last.outcome = "ok" /\ last.res # {}
    /\ \E k \in Keys : data[k] = NoEntry /\ TextHit(k, last.query)

\* C26: the list a Search returns holds each key at most once, is ordered
\* by non-increasing combined score and, when max_results > 0, has at most
\* max_results elements.
C26_OutputShape ==
    (last.op = "Search" /\ last.outcome = "ok")
        => /\ \A i, j \in 1..Len(last.list) : i # j => last.list[i].key # last.list[j].key
           /\ \A i, j \in 1..Len(last.list) : i < j => last.list[i].s >= last.list[j].s
           /\ last.query.maxResults > 0 => Len(last.list) <= last.query.maxResults

\* C26 witness: a Search by text and vector has returned two results, of a
\* document hit by both indexes and of one hit by the text index only, the
\* one with the higher combined score first.
C26_Witness ==
    /\ last.op = "Search" /\ last.outcome = "ok" /\ Len(last.list) = 2
    /\ last.list[1].s > last.list[2].s
    /\ last.list[1].text > 0 /\ last.list[1].vec > 0

\* the texts searched for: "RED", "blue", "red", "redo"
TextCodes == {-1, 1, 2, 3}

\* the keys in the posting set of the gram g
Posting(ti, g) == {k \in Keys : <<g, k>> \in ti.trigrams}

\* C27: TrigramIndex.Search(query) gives each key it returns the score
\* (query grams whose posting set holds the key) / (query grams), returns
\* the keys with at least one such gram and no other, and returns with
\* score 1.0 every document in whose text the query, of at least 3
\* characters, occurs when case is ignored.
C27_TrigramScoring ==
    \A f \in IndexFields, c \in TextCodes :
        LET ti == im.text[f]
            query == TextOf(c)
            grams == generateTrigrams(query)
            hits(k) == Cardinality({i \in 1..Len(grams) : k \in Posting(ti, grams[i])})
            rs == TrigramSearch(ti, query)
        IN ti.exists =>
            /\ \A r \in rs : hits(r.key) >= 1 /\ r.s = (4 * hits(r.key)) \div Len(grams)
            /\ \A k \in Keys : hits(k) >= 1 => \E r \in rs : r.key = k
            /\ \A k \in Keys :
                (/\ ti.docs[k] # Absent /\ Len(query) >= 3
                 /\ Substring(ToLower(query), ToLower(TextOf(ti.docs[k].v))))
                    => [key |-> k, s |-> 4] \in rs

\* C27 witness: the text index on title holds "RED" for one key and "redo"
\* for the other, and a search for "red" returns both with score 1.0.
C27_Witness ==
    /\ im.text["title"].exists
    /\ \E k, j \in Keys :
        /\ im.text["title"].docs[k] = StrRED /\ im.text["title"].docs[j] = StrRedo
        /\ TrigramSearch(im.text["title"], TextOf(2)) = {[key |-> k, s |-> 4], [key |-> j, s |-> 4]}

\* C28: a Delete of a key that is not in the map changes nothing: the map,
\* every index, the dirty flag and the Deletes counter are as before, and
\* the call returns normally.
C28_DeleteAbsentNoOp ==
    [][(last'.op = "Delete" /\ data[last'.key] = NoEntry)
        => /\ data' = data
           /\ im' = im
           /\ dirty' = dirty
           /\ last'.deletes = 0
           /\ last'.outcome = "ok"]_vars

\* C28 witness: a Delete of a key absent from the map has returned while the
\* text index on title holds a document for that key and the store is dirty.
C28_Witness ==
    /\ last.op = "Delete" /\ ~last.found /\ last.deletes = 0
    /\ data[last.key] = NoEntry
    /\ dirty
    /\ im.text["title"].exists /\ im.text["title"].docs[last.key] # Absent

\* C29: a sync() that finds the dirty flag false returns success at once and
\* leaves the mapped region's bytes and length, the document map, the
\* indexes and the dirty flag as they were.
C29_CleanSyncNoOp ==
    [][\A p \in Procs :
        (At(p, "sync", "start") /\ ~dirty /\ stack'[p] # stack[p] /\ status' = status)
            => /\ stack'[p] = Ret(stack[p])
               /\ last'.op \in {"Sync", "sync"} /\ last'.outcome = "ok"
               /\ file' = file
               /\ data' = data
               /\ im' = im
               /\ dirty' = dirty]_vars

\* C29 witness: a Sync() has returned success without encoding anything,
\* on a clean store whose map holds an entry and whose file holds its bytes.
C29_Witness ==
    /\ last.op = "Sync" /\ last.outcome = "ok" /\ last.enc = <<>>
    /\ ~dirty
    /\ data["a"] # NoEntry
    /\ file[1] # Zero

\* what the indexes of m hold for the key k: its items in the ordered
\* indexes, its vectors, its texts and its postings
Contribution(m, k) ==
    [f \in IndexFields |->
        [items |-> {m.trees[f].items[i].value :
                        i \in {j \in 1..Len(m.trees[f].items) : m.trees[f].items[j].key = k}},
         vector |-> m.vectors[f].vectors[k],
         doc |-> m.text[f].docs[k],
         grams |-> {p[1] : p \in {q \in m.text[f].trigrams : q[2] = k}}]]

\* C30: when gcExpiredEntries has completed, no entry that was expired (TTL
\* above 0 and now above timestamp + TTL) is left in the map or in any
\* index, every other entry is still in the map with what the indexes hold
\* for its key unchanged, expired_count has grown by the number of entries
\* removed, and dirty is set when an entry was removed and unchanged
\* otherwise.
C30_GcRemovesExactlyExpired ==
    [][last'.op = "gc" =>
        LET gone == {k \in Present(data) : Expired(data[k], Unix(now))}
        IN /\ \A k \in gone : data'[k] = NoEntry /\ k \notin IndexedKeys(im')
           /\ \A k \in Keys \ gone : data'[k] = data[k] /\ Contribution(im', k) = Contribution(im, k)
           /\ last'.expired = Cardinality(gone)
           /\ dirty' = (dirty \/ gone # {})]_vars

\* the entries encoded in the region: [ok, data]
Encoded(region) ==
    LET size == findContentSize(region)
    IN IF size = 0 THEN [ok |-> TRUE, data |-> EmptyMap]
       ELSE Decode(SubSeq(region, 1, size))

\* C31: in every state where the dirty flag is false, the entries encoded in
\* the mapped region are the entries of the document map, but for map
\* entries with a TTL above 0 that a sync left out as expired.
C31_CleanMeansOnFile ==
    (status = "open" /\ ~dirty) =>
        /\ Encoded(file).ok
        /\ \A k \in Keys :
            /\ Encoded(file).data[k] # NoEntry => Encoded(file).data[k] = data[k]
            /\ (Encoded(file).data[k] = NoEntry /\ data[k] # NoEntry) => data[k].TTL > 0

\* C31, second part: every Set, SetWithTTL, Delete of a present key and gc
\* removal leaves the dirty flag true.
C31_WritesMarkDirty ==
    [][/\ last'.op \in {"Set", "SetWithTTL"} => dirty'
       /\ (last'.op = "Delete" /\ last'.found) => dirty'
       /\ (last'.op = "gc" /\ last'.expired > 0) => dirty']_vars

\* C32: the entry a SetWithTTL with a positive duration has just stored has
\* a TTL above 0 (it is not stored as never expiring), for durations below
\* one second too.
C32_PositiveTTLExpires ==
    (last.op = "SetWithTTL" /\ hist[last.key].d > 0) => data[last.key].TTL > 0

\* C32, second part: the entry a Set has just stored has TTL 0, whatever
\* the entry it replaced.
C32_SetNeverExpires ==
    [][last'.op = "Set" => data'[last'.key].TTL = 0]_vars

ScalarKinds == {"string", "int", "float64"}

\* C34: a Set that gives an ordered index a scalar of one kind while the
\* index holds an item of another scalar kind completes without failure.
C34_MixedKindsInsert ==
    [][(/\ last'.op = "Set"
        /\ \E f \in IndexFields :
            /\ im.trees[f].exists
            /\ FieldOf(data'[last'.key].Value, f).t \in ScalarKinds
            /\ \E i \in 1..Len(im.trees[f].items) :
                im.trees[f].items[i].value.t
                    \in ScalarKinds \ {FieldOf(data'[last'.key].Value, f).t})
        => last'.outcome = "ok"]_vars

C36_CleanupRemovesOnlyExpired ==
    [][\A k \in Keys :
        (/\ cleanup'[k] < cleanup[k] /\ status' = status
         /\ data[k] # NoEntry /\ ~Expired(data[k], Unix(now)))
            => (data'[k] = data[k] /\ im' = im)]_vars

\* C37: once Close has returned, a tick of the periodic task terminates: no
\* process is ever in the doubling loop of growFile on the unmapped region
\* (length 0), where newSize stays 0 and the loop cannot end
C37_TickAfterCloseTerminates ==
    status = "closed" => \A p \in Procs : ~At(p, "growFile", "spin")

\* C38: the index statistics GetStats returns are the numbers of entries the
\* indexes of each type hold at the call, and entry_count is the size of the
\* document map (so a second call with nothing in between returns the same)
C38_StatsSnapshot ==
    [][last'.op = "GetStats" =>
        /\ stats'.entryCount = Cardinality({k \in Keys : data'[k] # NoEntry})
        /\ stats'.text = TextEntries(im')
        /\ stats'.vectors = VectorEntries(im')
        /\ stats'.trees = TreeEntries(im')]_vars

====
